---- MODULE Spec2Model ----
(***************************************************************************)
(* Win-Voice (src/dictate.py): the push-to-talk recording / transcription  *)
(* state machine of class WinVoice and the threads that share its fields:  *)
(*   - the audio driver thread running WinVoice.audio_callback,            *)
(*   - the hotkey thread running WinVoice.key_poll_loop, which calls       *)
(*     start_recording and stop_recording,                                 *)
(*   - one worker thread per hand-off running WinVoice.transcribe,         *)
(*   - the model loader (load_model) and the tray's wait_for_model thread, *)
(*   - the UI thread draining OverlayOrb.command_queue,                    *)
(*   - the tray thread running WinVoice.quit_app.                          *)
(* Python gives no atomicity across statements, so every read or write of  *)
(* a field shared between threads is a step of its own and the threads'    *)
(* steps interleave freely.                                                *)
(***************************************************************************)
EXTENDS Integers, Sequences, FiniteSets, TLC

VARIABLES
    keyDown,      \* the physical key, as GetAsyncKeyState reports it
    presses,      \* number of physical presses so far (bounds the run)
    key_pressed,  \* WinVoice.key_pressed
    hkpc,         \* position of the hotkey thread
    snap,         \* local audio_data of stop_recording (the detached copy)
    recording,    \* WinVoice.recording
    processing,   \* WinVoice.processing
    audio_data,   \* the list WinVoice.audio_data refers to; a frame is its sample count
    model,        \* WinVoice.model: "none" until load_model assigns it
    acpc,         \* position of the audio callback thread
    indata,       \* the frame the running callback was given
    acStale,      \* the list object the callback loaded is no longer WinVoice.audio_data
    worker,       \* the transcribe threads: slot -> record
    cmdQueue,     \* OverlayOrb.command_queue
    ovState,      \* OverlayOrb.state
    ovVisible,    \* the overlay window is shown (deiconify / withdraw)
    trayIcon,     \* colour of WinVoice.tray.icon
    trayReady,    \* wait_for_model has set the icon
    hold,         \* history: what start_recording did with the current key hold's press
    mainpc,       \* position of the main thread: __main__, then tk_mainloop
    cfgFile,      \* what is at CONFIG_FILE: "missing", "malformed" or "valid"
    config,       \* the dict load_config returned last: "defaults" or "file"
    running,      \* WinVoice.running
    streamOn,     \* the sounddevice stream is started and not stopped
    quitpc,       \* position of the tray thread inside quit_app
    delivered     \* history: the frames the callback accepted for the current recording

hotkeyVars == <<keyDown, presses, key_pressed, hkpc, snap>>
coreVars   == <<recording, processing, audio_data, model>>
audioVars  == <<acpc, indata, acStale>>
uiVars     == <<cmdQueue, ovState, ovVisible>>
trayVars   == <<trayIcon, trayReady>>
procVars   == <<mainpc, cfgFile, config, running, streamOn, quitpc>>
appVars == <<keyDown, presses, key_pressed, hkpc, snap, recording, processing,
             audio_data, model, acpc, indata, acStale, worker,
             cmdQueue, ovState, ovVisible, trayIcon, trayReady, hold>>
vars == <<appVars, procVars, delivered>>

(***************************************************************************)
(* Bounds of the model.                                                    *)
(***************************************************************************)
MaxPresses == 2      \* physical key presses in one run
MaxChunks == 2       \* frames one chunk list can hold
MaxQueue == 2        \* commands waiting in the overlay's queue
MaxSegs == 2         \* segments one inference call returns

FrameSizes == {800}                       \* samples per delivered frame
SegTexts == {<<>>, <<" ">>, <<" ", "a">>} \* texts of a segment, as character sequences
Whitespace == {" ", "\n", "\t"}

(***************************************************************************)
(* Program constants.                                                      *)
(***************************************************************************)
SAMPLE_RATE == 16000

\* int(SAMPLE_RATE * 0.1), the threshold of stop_recording
MinSamples == SAMPLE_RATE \div 10

\* a press starts at most one transcribe thread, so this many slots never run out
Workers == 1..MaxPresses

(***************************************************************************)
(* Pure helpers.                                                           *)
(***************************************************************************)
RECURSIVE SumLen(_)
\* sum(len(a) for a in audio_data)
SumLen(chunks) ==
    IF chunks = <<>> THEN 0 ELSE Head(chunks) + SumLen(Tail(chunks))

TooShort_strict(total) == total <= MinSamples

TooShort_never(total) == FALSE

\* total < int(SAMPLE_RATE * 0.1)
TooShort(total) == total < MinSamples

RECURSIVE JoinSegs(_)
\* " ".join([s.text for s in segments])
JoinSegs(segs) ==
    IF segs = <<>> THEN <<>>
    ELSE IF Len(segs) = 1 THEN segs[1]
    ELSE segs[1] \o <<" ">> \o JoinSegs(Tail(segs))

RECURSIVE LStrip(_)
LStrip(s) ==
    IF s # <<>> /\ Head(s) \in Whitespace THEN LStrip(Tail(s)) ELSE s

RECURSIVE RStrip(_)
RStrip(s) ==
    IF s # <<>> /\ s[Len(s)] \in Whitespace
    THEN RStrip(SubSeq(s, 1, Len(s) - 1)) ELSE s

Strip_none(s) == s

\* str.strip()
Strip(s) == RStrip(LStrip(s))

\* the text transcribe pastes for the segments the engine returned
ResultText(segs) == Strip(JoinSegs(segs))

\* all lists of at most MaxSegs segments
SegLists == UNION {[1..n -> SegTexts] : n \in 0..MaxSegs}

\* every character of every segment is whitespace
AllBlank(segs) ==
    \A i \in 1..Len(segs) : \A j \in 1..Len(segs[i]) : segs[i][j] \in Whitespace

(***************************************************************************)
(* State.                                                                  *)
(***************************************************************************)
Command(cmd, arg) == [cmd |-> cmd, arg |-> arg]

FreeWorker ==
    [pc |-> "free", data |-> <<>>, text |-> <<>>, blank |-> FALSE,
     raised |-> "none", log |-> <<>>]

\* stop_recording has cleared the recording flag and not yet decided between
\* the worker and the discard
Detaching == hkpc \in {"t_copy", "t_replace", "t_icon", "t_state", "t_total"}

\* the lifecycle tag {idle, recording, processing} the flags encode; a Session
\* being detached is still the recording one until stop_recording has compared
\* its total with the threshold
Lifecycle ==
    IF recording \/ Detaching \/ hkpc = "t_proc" THEN "recording"
    ELSE IF processing THEN "processing" ELSE "idle"

\* the fields as WinVoice.__init__ and the set-up of WinVoice.run leave them:
\* the model is not loaded yet, the tray shows yellow, the overlay is withdrawn
Fields ==
    /\ keyDown = FALSE
    /\ presses = 0
    /\ key_pressed = FALSE
    /\ hkpc = "poll"
    /\ snap = <<>>
    /\ recording = FALSE
    /\ processing = FALSE
    /\ audio_data = <<>>
    /\ model = "none"
    /\ acpc = "idle"
    /\ indata = 0
    /\ acStale = FALSE
    /\ worker = [w \in Workers |-> FreeWorker]
    /\ cmdQueue = <<>>
    /\ ovState = "loading"
    /\ ovVisible = FALSE
    /\ trayIcon = "yellow"
    /\ trayReady = FALSE
    /\ hold = "none"
    /\ delivered = <<>>

\* the application is up: __main__ has written the config file, WinVoice.run
\* has started the stream and the threads and is in tk_mainloop
Init ==
    /\ Fields
    /\ mainpc = "mainloop"
    /\ cfgFile = "valid"
    /\ config = "file"
    /\ running = TRUE
    /\ streamOn = TRUE
    /\ quitpc = "none"

\* the process has just been started: nothing of __main__ has run yet
InitProcess ==
    /\ Fields
    /\ mainpc = "load_config"
    /\ cfgFile \in {"missing", "malformed", "valid"}
    /\ config = "none"
    /\ running = TRUE
    /\ streamOn = FALSE
    /\ quitpc = "none"

(***************************************************************************)
(* The environment: the user's key, the model loader, the tray thread.     *)
(***************************************************************************)
PressKey ==
    /\ ~keyDown
    /\ presses < MaxPresses
    /\ keyDown' = TRUE
    /\ presses' = presses + 1
    /\ UNCHANGED <<key_pressed, hkpc, snap, coreVars, audioVars, worker,
                   uiVars, trayVars, hold>>

ReleaseKey ==
    /\ keyDown
    /\ keyDown' = FALSE
    /\ UNCHANGED <<presses, key_pressed, hkpc, snap, coreVars, audioVars, worker,
                   uiVars, trayVars, hold>>

\* load_model: self.model becomes the GPU model, or the CPU one when that fails
LoadModel ==
    /\ model = "none"
    /\ model' = "loaded"
    /\ UNCHANGED <<hotkeyVars, recording, processing, audio_data, audioVars,
                   worker, uiVars, trayVars, hold>>

\* wait_for_model (in run.on_tray_ready): once the model is there, icon green
WaitForModel ==
    /\ model # "none"
    /\ ~trayReady
    /\ trayIcon' = "green"
    /\ trayReady' = TRUE
    /\ UNCHANGED <<hotkeyVars, coreVars, audioVars, worker, uiVars,
                   hold>>

(***************************************************************************)
(* The audio driver thread: audio_callback.                                *)
(***************************************************************************)
\* `if self.recording:` for a frame of f samples
AudioCheck ==
    /\ streamOn
    /\ acpc = "idle"
    /\ Len(audio_data) < MaxChunks
    /\ \E f \in FrameSizes :
        IF recording
        THEN /\ acpc' = "load"
             /\ indata' = f
             /\ UNCHANGED <<hotkeyVars, coreVars, acStale, worker, uiVars, trayVars, hold>>
        ELSE UNCHANGED vars

\* `self.audio_data` is evaluated: the callback now holds that list object
AudioLoad ==
    /\ acpc = "load"
    /\ acpc' = "append"
    /\ acStale' = FALSE
    /\ UNCHANGED <<hotkeyVars, coreVars, indata, worker, uiVars,
                   trayVars, hold>>

AudioAppend_intoSnapshot ==
    /\ acpc = "append"
    /\ audio_data' = IF acStale THEN audio_data ELSE Append(audio_data, indata)
    /\ snap' = IF (hkpc = "t_replace" /\ ~acStale) \/ (hkpc = "t_icon" /\ acStale)
               THEN Append(snap, indata) ELSE snap
    /\ acpc' = "idle"
    /\ indata' = 0
    /\ acStale' = FALSE
    /\ UNCHANGED <<keyDown, presses, key_pressed, hkpc, recording, processing,
                   model, worker, uiVars, trayVars, hold>>

\* `.append(indata.copy())` on the list object loaded before
AudioAppend ==
    /\ acpc = "append"
    /\ audio_data' = IF acStale THEN audio_data ELSE Append(audio_data, indata)
    /\ acpc' = "idle"
    /\ indata' = 0
    /\ acStale' = FALSE
    /\ UNCHANGED <<hotkeyVars, recording, processing, model, worker, uiVars, trayVars, hold>>

\* `self.audio_data = []`: a callback that already loaded the old list keeps it
StaleAfterReplace == IF acpc = "append" THEN TRUE ELSE acStale

(***************************************************************************)
(* The hotkey thread: key_poll_loop, start_recording, stop_recording.      *)
(***************************************************************************)
Poll_levelTriggered ==
    /\ running
    /\ hkpc = "poll"
    /\ IF keyDown
       THEN /\ key_pressed' = TRUE
            /\ hkpc' = "s_guard"
            /\ hold' = "pending"
            /\ UNCHANGED <<keyDown, presses, snap, coreVars, audioVars, worker,
                           uiVars, trayVars>>
       ELSE IF key_pressed
       THEN /\ key_pressed' = FALSE
            /\ hkpc' = "t_guard"
            /\ UNCHANGED <<keyDown, presses, snap, coreVars, audioVars, worker,
                           uiVars, trayVars, hold>>
       ELSE UNCHANGED vars

\* one iteration of the poll loop (`while self.running:`): the edge detection
\* on key_pressed
Poll ==
    /\ running
    /\ hkpc = "poll"
    /\ IF keyDown /\ ~key_pressed
       THEN /\ key_pressed' = TRUE
            /\ hkpc' = "s_guard"
            /\ hold' = "pending"
            /\ UNCHANGED <<keyDown, presses, snap, coreVars, audioVars, worker,
                           uiVars, trayVars>>
       ELSE IF ~keyDown /\ key_pressed
       THEN /\ key_pressed' = FALSE
            /\ hkpc' = "t_guard"
            /\ UNCHANGED <<keyDown, presses, snap, coreVars, audioVars, worker,
                           uiVars, trayVars, hold>>
       ELSE UNCHANGED vars

StartBlocked_noProcessing == recording \/ model = "none"

StartBlocked_noModel == recording \/ processing

\* `if self.recording or self.processing or not self.model: return`
StartBlocked == recording \/ processing \/ model = "none"

\* start_recording, its guard
StartGuard ==
    /\ hkpc = "s_guard"
    /\ hkpc' = IF StartBlocked THEN "poll" ELSE "s_flag"
    /\ hold' = IF processing THEN "dropped"
               ELSE IF StartBlocked THEN "refused" ELSE "accepted"
    /\ UNCHANGED <<keyDown, presses, key_pressed, snap, coreVars, audioVars,
                   worker, uiVars, trayVars>>

\* `self.recording = True`
StartFlag ==
    /\ hkpc = "s_flag"
    /\ recording' = TRUE
    /\ hkpc' = "s_reset"
    /\ hold' = IF hold = "accepted" THEN "started" ELSE hold
    /\ UNCHANGED <<keyDown, presses, key_pressed, snap, processing, audio_data,
                   model, audioVars, worker, uiVars, trayVars>>

StartReset_skipped ==
    /\ hkpc = "s_reset"
    /\ hkpc' = "s_icon"
    /\ UNCHANGED <<keyDown, presses, key_pressed, snap, coreVars, audioVars,
                   worker, uiVars, trayVars, hold>>

\* `self.audio_data = []` (the reset)
StartReset ==
    /\ hkpc = "s_reset"
    /\ audio_data' = <<>>
    /\ acStale' = StaleAfterReplace
    /\ hkpc' = "s_icon"
    /\ UNCHANGED <<keyDown, presses, key_pressed, snap, recording, processing,
                   model, acpc, indata, worker, uiVars, trayVars,
                   hold>>

\* `self.tray.icon = create_icon("red")`
StartIcon ==
    /\ hkpc = "s_icon"
    /\ trayIcon' = "red"
    /\ hkpc' = "s_state"
    /\ UNCHANGED <<keyDown, presses, key_pressed, snap, coreVars, audioVars,
                   worker, uiVars, trayReady, hold>>

\* `self.overlay.set_state('recording')`
StartSetState ==
    /\ hkpc = "s_state"
    /\ Len(cmdQueue) < MaxQueue
    /\ cmdQueue' = Append(cmdQueue, Command("set_state", "recording"))
    /\ hkpc' = "s_show"
    /\ UNCHANGED <<keyDown, presses, key_pressed, snap, coreVars, audioVars,
                   worker, ovState, ovVisible, trayVars, hold>>

StartShow_direct ==
    /\ hkpc = "s_show"
    /\ ovVisible' = TRUE
    /\ hkpc' = "poll"
    /\ UNCHANGED <<keyDown, presses, key_pressed, snap, coreVars, audioVars,
                   worker, cmdQueue, ovState, trayVars, hold>>

\* `self.overlay.show()`, then the start sound and the return
StartShow ==
    /\ hkpc = "s_show"
    /\ Len(cmdQueue) < MaxQueue
    /\ cmdQueue' = Append(cmdQueue, Command("show", ""))
    /\ hkpc' = "poll"
    /\ UNCHANGED <<keyDown, presses, key_pressed, snap, coreVars, audioVars,
                   worker, ovState, ovVisible, trayVars, hold>>

\* stop_recording, its guard: `if not self.recording: return`
StopGuard ==
    /\ hkpc = "t_guard"
    /\ hkpc' = IF recording THEN "t_flag" ELSE "poll"
    /\ hold' = "none"
    /\ UNCHANGED <<keyDown, presses, key_pressed, snap, coreVars, audioVars,
                   worker, uiVars, trayVars>>

StopFlag_keepsRecording ==
    /\ hkpc = "t_flag"
    /\ hkpc' = "t_copy"
    /\ UNCHANGED <<keyDown, presses, key_pressed, snap, coreVars, audioVars,
                   worker, uiVars, trayVars, hold>>

\* `self.recording = False`
StopFlag ==
    /\ hkpc = "t_flag"
    /\ recording' = FALSE
    /\ hkpc' = "t_copy"
    /\ UNCHANGED <<keyDown, presses, key_pressed, snap, processing, audio_data,
                   model, audioVars, worker, uiVars, trayVars, hold>>

\* `audio_data = self.audio_data.copy()` (the snapshot)
StopCopy ==
    /\ hkpc = "t_copy"
    /\ snap' = audio_data
    /\ hkpc' = "t_replace"
    /\ UNCHANGED <<keyDown, presses, key_pressed, coreVars, audioVars, worker,
                   uiVars, trayVars, hold>>

\* `self.audio_data = []` (the detach)
StopReplace ==
    /\ hkpc = "t_replace"
    /\ audio_data' = <<>>
    /\ acStale' = StaleAfterReplace
    /\ hkpc' = "t_icon"
    /\ UNCHANGED <<keyDown, presses, key_pressed, snap, recording, processing,
                   model, acpc, indata, worker, uiVars, trayVars,
                   hold>>

\* `self.tray.icon = create_icon("yellow")`, then the stop sound
StopIcon ==
    /\ hkpc = "t_icon"
    /\ trayIcon' = "yellow"
    /\ hkpc' = "t_state"
    /\ UNCHANGED <<keyDown, presses, key_pressed, snap, coreVars, audioVars,
                   worker, uiVars, trayReady, hold>>

\* `self.overlay.set_state('processing')`
StopSetState ==
    /\ hkpc = "t_state"
    /\ Len(cmdQueue) < MaxQueue
    /\ cmdQueue' = Append(cmdQueue, Command("set_state", "processing"))
    /\ hkpc' = "t_total"
    /\ UNCHANGED <<keyDown, presses, key_pressed, snap, coreVars, audioVars,
                   worker, ovState, ovVisible, trayVars, hold>>

\* `total = sum(...)`; `if total < int(SAMPLE_RATE * 0.1):`
StopTotal ==
    /\ hkpc = "t_total"
    /\ hkpc' = IF TooShort(SumLen(snap)) THEN "t_short_icon" ELSE "t_proc"
    /\ UNCHANGED <<keyDown, presses, key_pressed, snap, coreVars, audioVars,
                   worker, uiVars, trayVars, hold>>

\* too short: `self.tray.icon = create_icon("green")`
StopShortIcon ==
    /\ hkpc = "t_short_icon"
    /\ trayIcon' = "green"
    /\ hkpc' = "t_short_hide"
    /\ UNCHANGED <<keyDown, presses, key_pressed, snap, coreVars, audioVars,
                   worker, uiVars, trayReady, hold>>

\* too short: `self.overlay.hide()` and the return
StopShortHide ==
    /\ hkpc = "t_short_hide"
    /\ Len(cmdQueue) < MaxQueue
    /\ cmdQueue' = Append(cmdQueue, Command("hide", ""))
    /\ hkpc' = "poll"
    /\ snap' = <<>>
    /\ UNCHANGED <<keyDown, presses, key_pressed, coreVars, audioVars, worker,
                   ovState, ovVisible, trayVars, hold>>

\* `self.processing = True`
StopProcessing ==
    /\ hkpc = "t_proc"
    /\ processing' = TRUE
    /\ hkpc' = "t_spawn"
    /\ UNCHANGED <<keyDown, presses, key_pressed, snap, recording, audio_data,
                   model, audioVars, worker, uiVars, trayVars, hold>>

\* a thread is executing transcribe in this slot
Alive(w) == worker[w].pc \notin {"free", "done", "crashed"}

\* `threading.Thread(target=self.transcribe, args=(audio_data,)).start()`
StopSpawn ==
    /\ hkpc = "t_spawn"
    /\ \E w \in Workers :
        /\ ~Alive(w)
        /\ \A v \in Workers : v < w => Alive(v)
        /\ worker' = [worker EXCEPT ![w] = [FreeWorker EXCEPT !.pc = "concat",
                                                              !.data = snap]]
    /\ hkpc' = "poll"
    /\ snap' = <<>>
    /\ UNCHANGED <<keyDown, presses, key_pressed, coreVars, audioVars, uiVars, trayVars, hold>>

(***************************************************************************)
(* A worker thread: transcribe(audio_data).                                *)
(***************************************************************************)
At(w, pc) == worker[w].pc = pc

\* the thread ends, by returning ("done") or by an uncaught exception ("crashed")
Ended(pc) == [FreeWorker EXCEPT !.pc = pc]

\* `audio = np.concatenate(audio_data, axis=0)`, which may raise
Concat(w) ==
    /\ At(w, "concat")
    /\ \E ok \in BOOLEAN :
        worker' = [worker EXCEPT ![w] =
                     IF ok THEN [@ EXCEPT !.pc = "wav", !.data = <<>>]
                     ELSE [@ EXCEPT !.pc = "c_clear", !.data = <<>>,
                                    !.raised = "concat"]]
    /\ UNCHANGED <<hotkeyVars, coreVars, audioVars, uiVars, trayVars,
                   hold>>

\* the concat handler: `self.processing = False`
ConcatClear(w) ==
    /\ At(w, "c_clear")
    /\ processing' = FALSE
    /\ worker' = [worker EXCEPT ![w].pc = "c_icon",
                                ![w].log = Append(@, "clear")]
    /\ UNCHANGED <<hotkeyVars, recording, audio_data, model, audioVars,
                   uiVars, trayVars, hold>>

\* the concat handler: `self.tray.icon = create_icon("green")`
ConcatIcon(w) ==
    /\ At(w, "c_icon")
    /\ trayIcon' = "green"
    /\ worker' = [worker EXCEPT ![w].pc = "c_hide"]
    /\ UNCHANGED <<hotkeyVars, coreVars, audioVars, uiVars, trayReady,
                   hold>>

\* the concat handler: `self.overlay.hide()` and the return
ConcatHide(w) ==
    /\ At(w, "c_hide")
    /\ Len(cmdQueue) < MaxQueue
    /\ cmdQueue' = Append(cmdQueue, Command("hide", ""))
    /\ worker' = [worker EXCEPT ![w] = Ended("done")]
    /\ UNCHANGED <<hotkeyVars, coreVars, audioVars, ovState,
                   ovVisible, trayVars, hold>>

\* the temporary file or wav.write raises: nothing in transcribe catches it,
\* the exception leaves the function and the thread ends
WavFailed(rec) == [Ended("crashed") EXCEPT !.raised = "wav"]

\* `with tempfile.NamedTemporaryFile(...) as f: wav.write(...)`
WriteWav(w) ==
    /\ At(w, "wav")
    /\ \E ok \in BOOLEAN :
        worker' = [worker EXCEPT ![w] =
                     IF ok THEN [@ EXCEPT !.pc = "infer"] ELSE WavFailed(@)]
    /\ UNCHANGED <<hotkeyVars, coreVars, audioVars, uiVars, trayVars,
                   hold>>

InferFailed_uncaught(rec) == [Ended("crashed") EXCEPT !.raised = "infer"]

\* `except Exception as e:` around the inference call; `finally:` unlinks the file
InferFailed(rec) == [rec EXCEPT !.pc = "clear", !.raised = "infer"]

\* `segments, _ = self.model.transcribe(...)`, the join and strip, `if text:`
Infer(w) ==
    /\ At(w, "infer")
    /\ \/ \E segs \in SegLists :
            worker' = [worker EXCEPT ![w] =
                         [@ EXCEPT !.text = ResultText(segs),
                                   !.blank = AllBlank(segs),
                                   !.pc = IF ResultText(segs) # <<>>
                                          THEN "copy" ELSE "clear"]]
       \/ worker' = [worker EXCEPT ![w] = InferFailed(@)]
    /\ UNCHANGED <<hotkeyVars, coreVars, audioVars, uiVars, trayVars,
                   hold>>

Copy_skipped(w) ==
    /\ At(w, "copy")
    /\ worker' = [worker EXCEPT ![w].pc = "paste", ![w].text = <<>>]
    /\ UNCHANGED <<hotkeyVars, coreVars, audioVars, uiVars, trayVars, hold>>

\* `pyperclip.copy(text)`, which may raise
Copy(w) ==
    /\ At(w, "copy")
    /\ \/ worker' = [worker EXCEPT ![w].pc = "paste", ![w].text = <<>>,
                                   ![w].log = Append(@, "copy")]
       \/ worker' = [worker EXCEPT ![w].pc = "clear", ![w].text = <<>>,
                                   ![w].raised = "clip"]
    /\ UNCHANGED <<hotkeyVars, coreVars, audioVars, uiVars, trayVars, hold>>

\* `time.sleep(0.05)`, `pyautogui.hotkey('ctrl', 'v')` (may raise), `pasted = True`
Paste(w) ==
    /\ At(w, "paste")
    /\ \/ worker' = [worker EXCEPT ![w].pc = "clear",
                                   ![w].log = Append(@, "paste")]
       \/ worker' = [worker EXCEPT ![w].pc = "clear", ![w].raised = "paste"]
    /\ UNCHANGED <<hotkeyVars, coreVars, audioVars, uiVars, trayVars,
                   hold>>

\* after the try statement: `self.processing = False`
Clear(w) ==
    /\ At(w, "clear")
    /\ processing' = FALSE
    /\ worker' = [worker EXCEPT ![w].pc = "icon",
                                ![w].log = Append(@, "clear")]
    /\ UNCHANGED <<hotkeyVars, recording, audio_data, model, audioVars,
                   uiVars, trayVars, hold>>

\* `self.tray.icon = create_icon("green")`
Icon(w) ==
    /\ At(w, "icon")
    /\ trayIcon' = "green"
    /\ worker' = [worker EXCEPT ![w].pc = "hide"]
    /\ UNCHANGED <<hotkeyVars, coreVars, audioVars, uiVars, trayReady,
                   hold>>

Hide_forgotten(w) ==
    /\ At(w, "hide")
    /\ worker' = [worker EXCEPT ![w] = Ended("done")]
    /\ UNCHANGED <<hotkeyVars, coreVars, audioVars, uiVars, trayVars, hold>>

\* `if pasted: time.sleep(0.3)`, `self.overlay.hide()`: the last statement
Hide(w) ==
    /\ At(w, "hide")
    /\ Len(cmdQueue) < MaxQueue
    /\ cmdQueue' = Append(cmdQueue, Command("hide", ""))
    /\ worker' = [worker EXCEPT ![w] = Ended("done")]
    /\ UNCHANGED <<hotkeyVars, coreVars, audioVars, ovState,
                   ovVisible, trayVars, hold>>

(***************************************************************************)
(* The UI thread: OverlayOrb.process_commands, one command per step.       *)
(***************************************************************************)
\* one command of an iteration of tk_mainloop (`while self.running:`):
\* _do_set_state / _do_show / _do_hide, as far as state and visibility go
ProcessCommand ==
    /\ running
    /\ cmdQueue # <<>>
    /\ cmdQueue' = Tail(cmdQueue)
    /\ LET c == Head(cmdQueue) IN
        /\ ovState' = IF c.cmd = "set_state" THEN c.arg ELSE ovState
        /\ ovVisible' = IF c.cmd = "show" THEN TRUE
                        ELSE IF c.cmd = "hide" THEN FALSE ELSE ovVisible
    /\ UNCHANGED <<hotkeyVars, coreVars, audioVars, worker, trayVars,
                   hold>>

(***************************************************************************)
(* The main thread before tk_mainloop: __main__.                           *)
(***************************************************************************)
\* load_config(): the defaults unless the file exists, opens and parses
load_config(file, readable) ==
    IF file = "valid" /\ readable THEN "file" ELSE "defaults"

\* `load_config()`, the argument of line 564
MainLoadConfig ==
    /\ mainpc = "load_config"
    /\ \E readable \in BOOLEAN : config' = load_config(cfgFile, readable)
    /\ mainpc' = "save_config"
    /\ UNCHANGED <<appVars, cfgFile, running, streamOn, quitpc, delivered>>

\* `save_config(...)` of line 564: open(CONFIG_FILE, 'w') and json.dump, with no
\* handler around them; a failed write may leave the file as it was or cut short
MainSaveConfig ==
    /\ mainpc = "save_config"
    /\ \/ /\ cfgFile' = "valid"
          /\ mainpc' = "construct"
       \/ /\ cfgFile' \in {cfgFile, "malformed"}
          /\ mainpc' = "crashed"
    /\ UNCHANGED <<appVars, config, running, streamOn, quitpc, delivered>>

\* `WinVoice().run()` up to tk_mainloop: __init__ loads the config again, run
\* starts the stream, the hotkey thread, the model loader and the tray
Construct ==
    /\ mainpc = "construct"
    /\ \E readable \in BOOLEAN : config' = load_config(cfgFile, readable)
    /\ streamOn' = TRUE
    /\ mainpc' = "mainloop"
    /\ UNCHANGED <<appVars, cfgFile, running, quitpc, delivered>>

(***************************************************************************)
(* Quit: quit_app on the tray thread, and the loops that test self.running.*)
(***************************************************************************)
\* the process exists and WinVoice.run has started its threads
Up == mainpc = "mainloop"

\* the Quit menu item: `self.running = False`
QuitRunning ==
    /\ Up
    /\ quitpc = "none"
    /\ running' = FALSE
    /\ quitpc' = "stream"
    /\ UNCHANGED <<appVars, mainpc, cfgFile, config, streamOn, delivered>>

\* `self.stream.stop()`, which returns once a running callback has returned
QuitStream ==
    /\ Up
    /\ quitpc = "stream"
    /\ acpc = "idle"
    /\ streamOn' = FALSE
    /\ quitpc' = "exit"
    /\ UNCHANGED <<appVars, mainpc, cfgFile, config, running, delivered>>

\* `self.tray.stop()` and `os._exit(0)`: the process is gone, with every thread
QuitExit ==
    /\ Up
    /\ quitpc = "exit"
    /\ mainpc' = "exited"
    /\ UNCHANGED <<appVars, cfgFile, config, running, streamOn, quitpc, delivered>>

\* key_poll_loop finds `self.running` false and returns: the thread ends
PollEnds ==
    /\ Up
    /\ ~running
    /\ hkpc = "poll"
    /\ hkpc' = "ended"
    /\ UNCHANGED <<keyDown, presses, key_pressed, snap, coreVars, audioVars,
                   worker, uiVars, trayVars, hold, procVars, delivered>>

\* tk_mainloop finds `self.running` false: run returns, the main thread ends
\* and, every other thread being a daemon, the interpreter exits; whether its
\* exit handlers stop a stream still running is the audio library's business
MainloopEnds ==
    /\ Up
    /\ ~running
    /\ mainpc' = "exited"
    /\ streamOn' \in {streamOn, FALSE}
    /\ UNCHANGED <<appVars, cfgFile, config, running, quitpc, delivered>>

(***************************************************************************)
(* The specifications.                                                     *)
(***************************************************************************)
\* nobody quits and no frame history is kept
Stay == UNCHANGED <<procVars, delivered>>

\* the frames the callback accepted (its test of self.recording was true)
\* since start_recording last set the flag, until stop_recording returns
Track ==
    delivered' =
        IF acpc = "idle" /\ acpc' = "load" THEN Append(delivered, indata')
        ELSE IF hkpc = "s_flag" /\ hkpc' = "s_reset" THEN <<>>
        ELSE IF hkpc \in {"t_short_hide", "t_spawn"} /\ hkpc' = "poll" THEN <<>>
        ELSE delivered

\* a step of a thread of the running process
Live == Up /\ UNCHANGED procVars /\ Track

\* the application while it is up
Next ==
    \/ PressKey /\ Stay
    \/ ReleaseKey /\ Stay
    \/ LoadModel /\ Stay
    \/ WaitForModel /\ Stay
    \/ AudioCheck /\ Stay
    \/ AudioLoad /\ Stay
    \/ AudioAppend /\ Stay
    \/ Poll /\ Stay
    \/ StartGuard /\ Stay
    \/ StartFlag /\ Stay
    \/ StartReset /\ Stay
    \/ StartIcon /\ Stay
    \/ StartSetState /\ Stay
    \/ StartShow /\ Stay
    \/ StopGuard /\ Stay
    \/ StopFlag /\ Stay
    \/ StopCopy /\ Stay
    \/ StopReplace /\ Stay
    \/ StopIcon /\ Stay
    \/ StopSetState /\ Stay
    \/ StopTotal /\ Stay
    \/ StopShortIcon /\ Stay
    \/ StopShortHide /\ Stay
    \/ StopProcessing /\ Stay
    \/ StopSpawn /\ Stay
    \/ \E w \in Workers : Concat(w) /\ Stay
    \/ \E w \in Workers : ConcatClear(w) /\ Stay
    \/ \E w \in Workers : ConcatIcon(w) /\ Stay
    \/ \E w \in Workers : ConcatHide(w) /\ Stay
    \/ \E w \in Workers : WriteWav(w) /\ Stay
    \/ \E w \in Workers : Infer(w) /\ Stay
    \/ \E w \in Workers : Copy(w) /\ Stay
    \/ \E w \in Workers : Paste(w) /\ Stay
    \/ \E w \in Workers : Clear(w) /\ Stay
    \/ \E w \in Workers : Icon(w) /\ Stay
    \/ \E w \in Workers : Hide(w) /\ Stay
    \/ ProcessCommand /\ Stay

Spec == Init /\ [][Next]_vars

\* the whole process, from its start to its exit
NextProcess ==
    \/ MainLoadConfig
    \/ MainSaveConfig
    \/ Construct
    \/ QuitRunning
    \/ QuitStream
    \/ QuitExit
    \/ PollEnds
    \/ MainloopEnds
    \/ PressKey /\ Live
    \/ ReleaseKey /\ Live
    \/ LoadModel /\ Live
    \/ WaitForModel /\ Live
    \/ AudioCheck /\ Live
    \/ AudioLoad /\ Live
    \/ AudioAppend /\ Live
    \/ Poll /\ Live
    \/ StartGuard /\ Live
    \/ StartFlag /\ Live
    \/ StartReset /\ Live
    \/ StartIcon /\ Live
    \/ StartSetState /\ Live
    \/ StartShow /\ Live
    \/ StopGuard /\ Live
    \/ StopFlag /\ Live
    \/ StopCopy /\ Live
    \/ StopReplace /\ Live
    \/ StopIcon /\ Live
    \/ StopSetState /\ Live
    \/ StopTotal /\ Live
    \/ StopShortIcon /\ Live
    \/ StopShortHide /\ Live
    \/ StopProcessing /\ Live
    \/ StopSpawn /\ Live
    \/ \E w \in Workers : Concat(w) /\ Live
    \/ \E w \in Workers : ConcatClear(w) /\ Live
    \/ \E w \in Workers : ConcatIcon(w) /\ Live
    \/ \E w \in Workers : ConcatHide(w) /\ Live
    \/ \E w \in Workers : WriteWav(w) /\ Live
    \/ \E w \in Workers : Infer(w) /\ Live
    \/ \E w \in Workers : Copy(w) /\ Live
    \/ \E w \in Workers : Paste(w) /\ Live
    \/ \E w \in Workers : Clear(w) /\ Live
    \/ \E w \in Workers : Icon(w) /\ Live
    \/ \E w \in Workers : Hide(w) /\ Live
    \/ ProcessCommand /\ Live

SpecProcess == InitProcess /\ [][NextProcess]_vars

(***************************************************************************)
(* Properties.                                                             *)
(***************************************************************************)
AliveWorkers == {w \in Workers : Alive(w)}

\* the positions of transcribe before its `self.processing = False`
BeforeClear == {"concat", "c_clear", "wav", "infer", "copy", "paste", "clear"}

\* the positions of transcribe after its `self.processing = False`
AfterClear == {"c_icon", "c_hide", "icon", "hide"}

Has(log, e) == \E i \in 1..Len(log) : log[i] = e

\* the thread found a non-empty text at `if text:`
HadText(w) ==
    \/ worker[w].pc \in {"copy", "paste"}
    \/ Has(worker[w].log, "copy")
    \/ Has(worker[w].log, "paste")
    \/ worker[w].raised \in {"clip", "paste"}

\* a step of the hotkey thread
HotkeyStep == hkpc' # hkpc

\* C1: append, reset and detach exclude one another: the callback's append
\* never executes while start_recording is between its flag write and its list
\* replacement, nor while stop_recording is between its flag write, its copy
\* and its list replacement.
C1_AppendExcluded ==
    [][(acpc = "append" /\ acpc' = "idle")
         => hkpc \notin {"s_reset", "t_copy", "t_replace"}]_vars

\* C2 (as stated): the lifecycle only ever moves idle -> recording ->
\* processing -> idle, entering recording once per press.
C2_OnlyFullCycles ==
    [][Lifecycle' # Lifecycle =>
         /\ <<Lifecycle, Lifecycle'>> \in
              {<<"idle", "recording">>, <<"recording", "processing">>,
               <<"processing", "idle">>}
         /\ Lifecycle' = "recording" => (hold = "accepted" /\ hold' = "started")]_vars

\* C2 (amended): the lifecycle moves idle -> recording once per accepted press,
\* then recording -> processing -> idle, or recording -> idle directly when the
\* detached snapshot has fewer than 1600 samples; never processing -> recording.
C2_CycleOrDiscard ==
    [][Lifecycle' # Lifecycle =>
         /\ \/ <<Lifecycle, Lifecycle'>> \in
                 {<<"idle", "recording">>, <<"recording", "processing">>,
                  <<"processing", "idle">>}
            \/ /\ <<Lifecycle, Lifecycle'>> = <<"recording", "idle">>
               /\ SumLen(snap) < 1600
         /\ Lifecycle' = "recording" => (hold = "accepted" /\ hold' = "started")
         /\ Lifecycle' = "processing" => SumLen(snap) >= 1600]_vars

\* a recording with some audio, but too little, has just been discarded
C2_Witness ==
    /\ hkpc = "t_short_icon"
    /\ SumLen(snap) = 800
    /\ Lifecycle = "idle"

\* C3: a press that start_recording receives while processing is true is
\* dropped: for the whole key hold, release included, the hotkey thread sets no
\* flag, touches no chunk list, enqueues no command, changes no icon and starts
\* no worker, also after processing has ended.
C3_PressDropped ==
    /\ [](hold = "dropped" => (~recording /\ hkpc \in {"poll", "t_guard"}))
    /\ [][(hold = "dropped" /\ HotkeyStep) =>
            UNCHANGED <<recording, processing, audio_data, snap, cmdQueue,
                        worker, trayIcon>>]_vars

\* the dropped press's key is still held when processing has ended
C3_Witness ==
    /\ hold = "dropped"
    /\ ~processing
    /\ keyDown
    /\ key_pressed
    /\ hkpc = "poll"

\* C4: a snapshot of fewer than 1600 samples starts no worker and never sets
\* processing; a snapshot of 1600 samples or more is handed to exactly one.
C4_ShortNeverTranscribed ==
    /\ [](\A w \in Workers : At(w, "concat") => SumLen(worker[w].data) >= 1600)
    /\ [](hkpc \in {"t_short_icon", "t_short_hide"} =>
            (SumLen(snap) < 1600 /\ Lifecycle = "idle"))
    /\ [](hkpc \in {"t_proc", "t_spawn"} => SumLen(snap) >= 1600)
    /\ [][(processing' /\ ~processing) => SumLen(snap) >= 1600]_vars
    /\ [][AliveWorkers' # AliveWorkers /\ HotkeyStep =>
            /\ hkpc = "t_spawn"
            /\ \E w \in Workers \ AliveWorkers :
                 /\ AliveWorkers' = AliveWorkers \cup {w}
                 /\ worker'[w].data = snap]_vars

\* a snapshot of exactly 1600 samples is with a worker
C4_Witness ==
    \E w \in Workers : At(w, "concat") /\ SumLen(worker[w].data) = 1600

\* C5: recording and processing are never both true, and recording is never
\* set while processing is true.
C5_OneSession ==
    /\ [](~(recording /\ processing))
    /\ [][(recording' /\ ~recording) => (~processing /\ ~processing')]_vars

\* start_recording is called while the previous Session is processing
C5_Witness ==
    /\ processing
    /\ hkpc = "s_guard"

\* C6: at most one thread is executing transcribe, from its start to its last
\* statement.
C6_NoWorkerOverlap == Cardinality(AliveWorkers) <= 1

\* C7: a Session in processing has a worker that is still to set processing
\* back to false (or is about to be given one): no way for the worker to end
\* leaves processing true.
C7_ProcessingEnds ==
    processing =>
        \/ hkpc = "t_spawn"
        \/ \E w \in Workers : worker[w].pc \in BeforeClear

\* C8: when concatenation or inference raises, the thread writes no clipboard
\* and sends no paste, the exception stays inside transcribe, and the thread
\* sets processing to false.
C8_FailureIsContained ==
    /\ [](\A w \in Workers : worker[w].raised \in {"concat", "infer"} =>
            /\ ~Has(worker[w].log, "copy")
            /\ ~Has(worker[w].log, "paste")
            /\ worker[w].pc \in {"c_clear", "clear"} \cup AfterClear
            /\ worker[w].pc \in AfterClear => worker[w].log = <<"clear">>)
    /\ [][\A w \in Workers :
            (/\ worker[w].raised \in {"concat", "infer"}
             /\ worker[w].pc \in {"c_clear", "clear"}
             /\ worker'[w].pc # worker[w].pc) => (processing /\ ~processing')]_vars

\* a worker whose inference raised has set processing back to false
C8_Witness ==
    \E w \in Workers :
        /\ worker[w].raised = "infer"
        /\ worker[w].pc = "icon"
        /\ ~processing

\* C9: segments whose texts hold nothing but whitespace (or no segment at all)
\* lead to no clipboard write and no paste; nothing is raised and the thread
\* goes on to set processing to false.
C9_BlankNeverPasted ==
    /\ [](\A w \in Workers : worker[w].blank =>
            /\ ~HadText(w)
            /\ ~Has(worker[w].log, "paste")
            /\ worker[w].raised = "none"
            /\ worker[w].pc \in {"clear", "icon", "hide"})
    /\ [][\A w \in Workers :
            (worker[w].blank /\ At(w, "clear") /\ worker'[w].pc # "clear")
              => (processing /\ ~processing')]_vars

\* a blank result has ended its cycle in idle
C9_Witness ==
    \E w \in Workers :
        /\ worker[w].blank
        /\ worker[w].pc = "icon"
        /\ Lifecycle = "idle"

\* C10 (as stated): a cycle with a non-empty text is clipboard write, paste,
\* completion signal, in that order, with exactly one paste.
C10_ExactlyOnePaste ==
    \A w \in Workers :
        (HadText(w) /\ worker[w].pc \in AfterClear)
          => worker[w].log = <<"copy", "paste", "clear">>

\* C10 (amended): in a cycle with a non-empty text the paste comes after the
\* clipboard write and before the completion signal, while processing is still
\* true; there is at most one paste, and exactly one when neither the
\* clipboard write nor the keystroke raises.
C10_PasteBeforeCompletion ==
    \A w \in Workers : HadText(w) =>
        /\ worker[w].log \in
             {<<>>, <<"copy">>, <<"copy", "paste">>,
              <<"copy", "paste", "clear">>, <<"copy", "clear">>, <<"clear">>}
        /\ worker[w].pc \in {"copy", "paste", "clear"} => processing
        /\ (worker[w].pc \in AfterClear /\ worker[w].raised = "none")
             => worker[w].log = <<"copy", "paste", "clear">>
        /\ worker[w].raised = "clip" => ~Has(worker[w].log, "paste")

\* a text has been copied, pasted, and completion signalled
C10_Witness ==
    \E w \in Workers :
        /\ worker[w].log = <<"copy", "paste", "clear">>
        /\ worker[w].pc = "hide"

\* the positions of the hotkey thread inside a start_recording call
InStart == {"s_guard", "s_flag", "s_reset", "s_icon", "s_state", "s_show"}

\* the positions of the hotkey thread inside a stop_recording call
InStop == {"t_guard", "t_flag", "t_copy", "t_replace", "t_icon", "t_state",
           "t_total", "t_short_icon", "t_short_hide", "t_proc", "t_spawn"}

\* C11: the poll loop debounces. It calls start_recording only on an iteration
\* that sees the key down with key_pressed false, and stop_recording only on one
\* that sees it up with key_pressed true; each call flips key_pressed, so one
\* hold (key_pressed true from the press edge to the release edge) has exactly
\* one start_recording call, at its beginning, and exactly one stop_recording
\* call, at its end; an iteration that sees the key down again makes no call.
C11_Debounced ==
    /\ [][(hkpc' = "s_guard" /\ hkpc # "s_guard") =>
            (hkpc = "poll" /\ keyDown /\ ~key_pressed /\ key_pressed')]_vars
    /\ [][(hkpc' = "t_guard" /\ hkpc # "t_guard") =>
            (hkpc = "poll" /\ ~keyDown /\ key_pressed /\ ~key_pressed')]_vars
    /\ [][key_pressed' # key_pressed =>
            (hkpc = "poll" /\ hkpc' = IF key_pressed' THEN "s_guard" ELSE "t_guard")]_vars
    /\ [][(hkpc = "poll" /\ keyDown /\ key_pressed) =>
            UNCHANGED <<hkpc, key_pressed, snap>>]_vars
    /\ [](hkpc \in InStart => key_pressed)
    /\ [](hkpc \in InStop => ~key_pressed)

\* the loop is polling a key it has already seen down, in a running recording
C11_Witness ==
    /\ hkpc = "poll"
    /\ keyDown
    /\ key_pressed
    /\ hold = "started"
    /\ recording
    /\ audio_data # <<>>

\* C12: the callback appends only when the recording flag is true: the chunk
\* list never grows in a step taken while recording is false.
C12_GrowsOnlyWhileRecording ==
    [][Len(audio_data') > Len(audio_data) => recording]_vars

\* C13: the audio stop_recording hands to the worker is, in order, exactly the
\* frames the callback accepted while this Session's recording flag was true:
\* none lost, none added.
C13_HandedAudioIsDelivered == hkpc = "t_spawn" => snap = delivered

\* C14 (as stated): the chunk list is emptied only by start_recording's reset,
\* and at no other point of the cycle.
C14_ClearedOnlyAtStart ==
    [][(audio_data # <<>> /\ audio_data' = <<>>) => hkpc = "s_reset"]_vars

\* C14 (amended): the chunk list is replaced by an empty list at two points of
\* a Session and nowhere else: by start_recording's reset, which follows every
\* setting of the recording flag and nothing else, and by stop_recording's
\* detach, which follows every snapshot and nothing else.
C14_ResetAndDetachOnly ==
    /\ [][Len(audio_data') < Len(audio_data) =>
            (hkpc \in {"s_reset", "t_replace"} /\ hkpc' # hkpc)]_vars
    /\ [][(hkpc \in {"s_reset", "t_replace"} /\ hkpc' # hkpc) =>
            audio_data' = <<>>]_vars
    /\ [][(hkpc' = "s_reset" /\ hkpc # "s_reset") <=> (recording' /\ ~recording)]_vars
    /\ [][(hkpc' = "t_replace" /\ hkpc # "t_replace") =>
            (hkpc = "t_copy" /\ snap' = audio_data /\ ~recording)]_vars
    /\ [](hkpc = "s_reset" => (recording /\ hold = "started"))
    /\ [](hkpc = "t_replace" => (~recording /\ hold = "none"))

\* stop_recording has just detached a list that held a frame
C14_Witness ==
    /\ hkpc = "t_icon"
    /\ snap # <<>>
    /\ audio_data = <<>>

\* C15: recording is entered only with a model loaded. While self.model is None
\* a press leaves recording false and the chunk list untouched, and the hold of
\* a press refused for that reason starts nothing later either: with the key
\* still down after load_model has assigned the model, the hotkey thread sets
\* no flag, touches no list, enqueues nothing and changes no icon.
C15_NoRecordingWhileLoading ==
    /\ [](model = "none" =>
            /\ ~recording
            /\ ~processing
            /\ audio_data = <<>>
            /\ hkpc \notin (InStart \ {"s_guard"}) \cup (InStop \ {"t_guard"}))
    /\ [][(recording' /\ ~recording) => (model # "none" /\ hold = "accepted")]_vars
    /\ [][(hold' = "refused" /\ hold # "refused") => model = "none"]_vars
    /\ [](hold = "refused" => (~recording /\ hkpc \in {"poll", "t_guard"}))
    /\ [][(hold = "refused" /\ HotkeyStep) =>
            UNCHANGED <<recording, processing, audio_data, snap, cmdQueue,
                        worker, trayIcon>>]_vars

\* the key of a press refused during loading is still held, the model is loaded
C15_Witness ==
    /\ hold = "refused"
    /\ model = "loaded"
    /\ keyDown
    /\ key_pressed
    /\ hkpc = "poll"
    /\ ~recording

CoreThreadStep == acpc' # acpc \/ hkpc' # hkpc \/ worker' # worker

\* the command a step of start_recording, stop_recording or transcribe puts
\* on the overlay's queue, if it is at a call of set_state, show or hide
Requested ==
    IF hkpc = "s_state" THEN {Command("set_state", "recording")}
    ELSE IF hkpc = "s_show" THEN {Command("show", "")}
    ELSE IF hkpc = "t_state" THEN {Command("set_state", "processing")}
    ELSE IF hkpc = "t_short_hide" THEN {Command("hide", "")}
    ELSE {}

Settled ==
    /\ \E w \in Workers : worker[w].pc = "done"
    /\ AliveWorkers = {}
    /\ hkpc = "poll"
    /\ ~recording
    /\ ~processing
    /\ cmdQueue = <<>>

C18_ConfigNeverBlocksStartup ==
    /\ (mainpc = "save_config" /\ cfgFile # "valid") => config = "defaults"
    /\ mainpc # "crashed"

\* C19: when the process exits after Quit, the audio stream has been stopped,
\* the hotkey poll loop has returned and no transcribe thread is running.
C19_StoppedBeforeExit ==
    mainpc = "exited" =>
        /\ ~streamOn
        /\ hkpc = "ended"
        /\ AliveWorkers = {}

\* start_recording has returned and the matching stop_recording has not yet
\* cleared the flag: set_state('recording') and show() have been enqueued
ShownRecording == recording /\ hkpc \in {"poll", "t_guard", "t_flag"}

\* C20: while a recording is in progress no hide command is enqueued behind
\* its show: from start_recording's return to the matching stop_recording, no
\* step appends a hide to the queue.
C20_NoHideWhileRecording ==
    [][ShownRecording =>
         ~(/\ Len(cmdQueue') = Len(cmdQueue) + 1
           /\ cmdQueue'[Len(cmdQueue')].cmd = "hide")]_vars

\* the positions of stop_recording after its copy of the chunk list
AfterCopy == InStop \ {"t_guard", "t_flag", "t_copy"}

NoCallRunning == hkpc = "poll" /\ AliveWorkers = {}

\* C22: whenever no start_recording, stop_recording or transcribe call is
\* mid-execution the tray icon is red if and only if recording is true; no
\* recording goes on under a green icon.
C22_TrayAgrees == NoCallRunning => (trayIcon = "red" <=> recording)

====
